---------------------------- MODULE Spec2Model ----------------------------
(***************************************************************************)
(* Model of the debug session state machine of src/common/debugger.cpp:    *)
(* DebugMainLoop, the registry g_Processes and the exception policy.       *)
(*                                                                         *)
(* One action stands for one pass through the body of the while loop of    *)
(* DebugMainLoop: the blocking WaitForDebugEvent, the branch of the switch *)
(* for the event received, and the trailing ContinueDebugEvent.  The loop  *)
(* test that follows is a step of its own: it ends the scope of the locals *)
(* of the body (DebugEvent, dwContinueStatus).  Every call the body makes  *)
(* to an external collaborator is appended to `calls`, in program order.   *)
(* Logging (lprintf, OutputDebug, and with it pOptions->debug_flag) has no *)
(* effect on the state and is left out.  readProcessString is modelled as  *)
(* the buffer it returns and has a specification of its own, ReaderSpec.   *)
(***************************************************************************)
EXTENDS Integers, Sequences, FiniteSets, TLC

(***************************************************************************)
(* Bounds of the model.  Thread ids are system-wide: thread t belongs to   *)
(* process Owner(t), so an event is identified by its thread id.           *)
(***************************************************************************)
MaxPid == 2
MaxTid == 3
\* longest debug string (nDebugStringLength)
MaxLen == 3

PIDs == 1..MaxPid
TIDs == 1..MaxTid
Owner(t) == ((t - 1) % MaxPid) + 1

(***************************************************************************)
(* Values.  NTSTATUS codes are 32-bit two's complement values.             *)
(***************************************************************************)
STATUS_BREAKPOINT == -2147483645
STATUS_WX86_BREAKPOINT == 1073741855
STATUS_ACCESS_VIOLATION == -1073741819
AbortExitCode == 3

ExceptionCodes == {STATUS_BREAKPOINT, STATUS_WX86_BREAKPOINT, STATUS_ACCESS_VIOLATION}
ExitCodes == {0, AbortExitCode, STATUS_ACCESS_VIOLATION}

DBG_CONTINUE == "DBG_CONTINUE"
DBG_EXCEPTION_NOT_HANDLED == "DBG_EXCEPTION_NOT_HANDLED"

NULL == <<"NULL">>
ProcessHandle(p) == <<"hProcess", p>>
ThreadHandle(t) == <<"hThread", t>>
EventHandle == <<"hEvent">>
\* What a read through the uninitialised pThreadInfo (line 267) may yield:
\* the handle of any thread an earlier branch left behind, or garbage.
IndeterminateHandles == {ThreadHandle(t) : t \in TIDs} \cup {<<"garbage">>}

(***************************************************************************)
(* std::map helpers.                                                       *)
(***************************************************************************)
EmptyMap == [k \in {} |-> NULL]
\* THREAD_INFO and PROCESS_INFO as operator[] value-initialises them
DefaultThreadInfo == [hThread |-> NULL]
DefaultProcessInfo == [hProcess |-> NULL, Threads |-> EmptyMap]
\* m[k] of std::map: inserts a value-initialised element when k is absent
Subscript(m, k, default) == IF k \in DOMAIN m THEN m ELSE m @@ (k :> default)
\* variant: erase that removes nothing
EraseNothing(m, k) == m
\* m.erase(k)
Erase(m, k) == [x \in DOMAIN m \ {k} |-> m[x]]

Min(S) == CHOOSE x \in S : \A y \in S : x <= y
RECURSIVE KeysInOrder(_)
\* the keys of a std::map in iteration order (ascending)
KeysInOrder(S) == IF S = {} THEN <<>> ELSE <<Min(S)>> \o KeysInOrder(S \ {Min(S)})

RECURSIVE SelectCalls(_, _)
\* the calls of log `s` whose op is in `ops`, in order
SelectCalls(s, ops) ==
    IF s = <<>> THEN <<>>
    ELSE (IF Head(s).op \in ops THEN <<Head(s)>> ELSE <<>>) \o SelectCalls(Tail(s), ops)

Call(op, args) == [op |-> op, args |-> args]

(***************************************************************************)
(* readProcessString (lines 151-164).  A buffer is a sequence of chars;    *)
(* index i of the code is position i + 1.  A char malloc left unwritten    *)
(* is Indeterminate.  `remote` is what lies at lpBaseAddress in the        *)
(* debuggee, nSize chars of it; ok and NumberOfBytesRead are what          *)
(* ReadProcessMemory answers: all nSize chars when it succeeds, and the    *)
(* chars it could transfer (at most nSize) when it fails.  malloc is taken *)
(* to succeed.                                                             *)
(***************************************************************************)
NUL == 0
Chars == {NUL, 65, 66}
Indeterminate == -1

\* line 154: malloc(nSize + 1)
Malloc(n) == [i \in 1..n |-> Indeterminate]

\* line 157: the chars transferred are stored at the start of the buffer
ReadProcessMemory(remote, lpBuffer, NumberOfBytesRead) ==
    [i \in 1..Len(lpBuffer) |-> IF i <= NumberOfBytesRead THEN remote[i] ELSE lpBuffer[i]]

\* variant: line 162 is left out
readProcessStringUnterminated(remote, nSize, ok, NumberOfBytesRead) ==
    LET read == ReadProcessMemory(remote, Malloc(nSize + 1), NumberOfBytesRead)
    IN  IF ok THEN read ELSE [read EXCEPT ![1] = NUL]
\* lines 154-163: the buffer returned
readProcessString(remote, nSize, ok, NumberOfBytesRead) ==
    LET read == ReadProcessMemory(remote, Malloc(nSize + 1), NumberOfBytesRead)
        \* lines 157-159
        lpszBuffer == IF ok THEN read ELSE [read EXCEPT ![1] = NUL]
    IN  \* line 162
        [lpszBuffer EXCEPT ![NumberOfBytesRead + 1] = NUL]

RECURSIVE CString(_)
\* the string a char* denotes (fputs, line 442): the chars before the first NUL
CString(buf) ==
    IF buf = <<>> \/ Head(buf) = NUL THEN <<>> ELSE <<Head(buf)>> \o CString(Tail(buf))

VARIABLES
    g_Processes,              \* static PROCESS_INFO_LIST g_Processes
    fFinished,                \* locals of DebugMainLoop that outlive an iteration
    fBreakpointSignalled,
    fWowBreakpointSignalled,
    pOptions,                 \* const DebugOptions *pOptions
    pc,                       \* "wait": blocked in WaitForDebugEvent; "iterated": at
                              \* the end of the loop body; "returnedTRUE";
                              \* "returnedFALSE"; "exited": left through exit()
    DebugEvent,               \* the notification of the current iteration
    dwContinueStatus,         \* its continuation status
    calls,                    \* external calls of the current iteration, in order
                              \* (and the erase of a process record, line 381)
    hEventLog,                \* every call made on pOptions->hEvent in this run
    waitOk,                   \* result of the last WaitForDebugEvent
    reader,                   \* a call of readProcessString: its arguments, what
                              \* ReadProcessMemory answered, the buffer returned
    \* history of the notification stream (not program state)
    live,                     \* pid -> thread ids, created and not yet exited
    exited,                   \* pids whose process-exit was delivered
    wellFormed,               \* the stream so far is well-formed
    firstFcBp,                \* "none" | "this" | "past": the first first-chance breakpoint
    attachPid                 \* the process that reported it (0: none yet)

vars == <<g_Processes, fFinished, fBreakpointSignalled, fWowBreakpointSignalled,
          pOptions, pc, DebugEvent, dwContinueStatus, calls, hEventLog, waitOk,
          reader, live, exited, wellFormed, firstFcBp, attachPid>>

NoEvent == [dwDebugEventCode |-> "NONE", dwProcessId |-> 0, dwThreadId |-> 0, u |-> <<>>]

Event(code, t, u) ==
    [dwDebugEventCode |-> code, dwProcessId |-> Owner(t), dwThreadId |-> t, u |-> u]

Options == [first_chance : BOOLEAN, breakpoint_flag : BOOLEAN,
            verbose_flag : BOOLEAN, hEvent : {NULL, EventHandle}]

\* no call of readProcessString under way
NoCall == [phase |-> "none"]

\* DebugMainLoop is entered
LoopInit ==
    /\ g_Processes = EmptyMap
    /\ fFinished = FALSE
    /\ fBreakpointSignalled = FALSE
    /\ fWowBreakpointSignalled = FALSE
    /\ pOptions \in Options
    /\ pc = "wait"
    /\ DebugEvent = NoEvent
    /\ dwContinueStatus = DBG_CONTINUE
    /\ calls = <<>>
    /\ hEventLog = <<>>
    /\ waitOk = TRUE
    /\ live = [p \in {} |-> {}]
    /\ exited = {}
    /\ wellFormed = TRUE
    /\ firstFcBp = "none"
    /\ attachPid = 0

Init == LoopInit /\ reader = NoCall


(***************************************************************************)
(* The branches of the switch (lines 191-466).  Each yields what the       *)
(* iteration leaves behind: the registry, the two session flags, the       *)
(* continuation status, the external calls made, fFinished, and whether    *)
(* the branch left through exit(EXIT_FAILURE).                             *)
(***************************************************************************)
Outcome(procs, bp, wow, status, made, finished, exit) ==
    [procs |-> procs, bp |-> bp, wow |-> wow, status |-> status,
     calls |-> made, finished |-> finished, exit |-> exit]

\* variant: dwContinueStatus starts as DBG_EXCEPTION_NOT_HANDLED
PlainUnhandled(procs, made) ==
    Outcome(procs, fBreakpointSignalled, fWowBreakpointSignalled, DBG_EXCEPTION_NOT_HANDLED,
            made, fFinished, FALSE)
\* a branch that keeps the flags and the initial dwContinueStatus (line 176)
Plain(procs, made) ==
    Outcome(procs, fBreakpointSignalled, fWowBreakpointSignalled, DBG_CONTINUE,
            made, fFinished, FALSE)

DumpStackCall(hProcess, hThread, it) ==
    [op |-> "dumpStack", args |-> <<hProcess, hThread>>, it |-> it]

\* variant: the event is signalled whether or not it was signalled before
SignalEventAgain(firstBp) ==
    IF pOptions.hEvent # NULL
    THEN <<Call("SetEvent", <<pOptions.hEvent>>), Call("CloseHandle", <<pOptions.hEvent>>)>>
    ELSE <<>>
\* lines 214-220: the aedebug event is signalled and closed
SignalEvent(firstBp) ==
    IF firstBp /\ pOptions.hEvent # NULL
    THEN <<Call("SetEvent", <<pOptions.hEvent>>), Call("CloseHandle", <<pOptions.hEvent>>)>>
    ELSE <<>>

\* lines 258-264: the threads of the dump loop that are not skipped
DumpedThreads(Threads, tid, ExceptionCode) ==
    LET Kept(d) == ~(d # tid /\ ExceptionCode # STATUS_BREAKPOINT /\ ~pOptions.verbose_flag)
    IN  SelectSeq(KeysInOrder(DOMAIN Threads), Kept)

\* variant: the test of dwFirstChance is dropped
TerminateAlways(hProcess, dwFirstChance, ExceptionCode) ==
    <<Call("TerminateProcess", <<hProcess, ExceptionCode>>)>>
\* variant: the exit code is not the exception code
TerminateWithExitFailure(hProcess, dwFirstChance, ExceptionCode) ==
    IF ~dwFirstChance
    THEN <<Call("TerminateProcess", <<hProcess, 1>>)>>
    ELSE <<>>
\* lines 270-276
Terminate(hProcess, dwFirstChance, ExceptionCode) ==
    IF ~dwFirstChance
    THEN <<Call("TerminateProcess", <<hProcess, ExceptionCode>>)>>
    ELSE <<>>

\* lines 248-276: symbol refresh, exception record, stack dumps, terminate.
\* hThread is what the read of pThreadInfo->hThread yields (line 267):
\* pThreadInfo is not assigned on this path.
Capture(pProcessInfo, ev, hThread) ==
    LET dumped == DumpedThreads(pProcessInfo.Threads, ev.dwThreadId, ev.u.ExceptionCode)
    IN  <<Call("SymRefreshModuleList", <<pProcessInfo.hProcess>>),
          Call("dumpException", <<pProcessInfo.hProcess, ev.u.ExceptionCode>>)>>
        \o [i \in 1..Len(dumped) |->
               DumpStackCall(pProcessInfo.hProcess, hThread, dumped[i])]
        \o Terminate(pProcessInfo.hProcess, ev.u.dwFirstChance, ev.u.ExceptionCode)

\* variant: fBreakpointSignalled is not consulted
FirstBreakpointEvery(ev) ==
    ev.u.dwFirstChance /\ ev.u.ExceptionCode = STATUS_BREAKPOINT
\* lines 211-214: a first-chance breakpoint while none was signalled yet
FirstBreakpoint(ev) ==
    ev.u.dwFirstChance /\ ev.u.ExceptionCode = STATUS_BREAKPOINT /\ ~fBreakpointSignalled

\* variant: the test of breakpoint_flag is inverted
IgnoreAttachBreakpointInverted(firstBp) == firstBp /\ pOptions.breakpoint_flag
\* lines 229-232: the branch is left at once, with DBG_CONTINUE
IgnoreAttachBreakpoint(firstBp) == firstBp /\ ~pOptions.breakpoint_flag

\* variant: the test is made outside the first-chance block
FirstWowBreakpointAnyChance(ev) ==
    ev.u.ExceptionCode = STATUS_WX86_BREAKPOINT /\ ~fWowBreakpointSignalled
\* lines 236-237 (inside the first-chance block of line 211)
FirstWowBreakpoint(ev) ==
    ev.u.dwFirstChance /\ ev.u.ExceptionCode = STATUS_WX86_BREAKPOINT
    /\ ~fWowBreakpointSignalled

\* variant: the test of first_chance is inverted
SkipFirstChanceInverted(ev) == ev.u.dwFirstChance /\ pOptions.first_chance
\* lines 243-245
SkipFirstChance(ev) == ev.u.dwFirstChance /\ ~pOptions.first_chance

\* variant: line 239 is left out
ExceptionStatusWowUnhandled(attachBreak, firstWow) ==
    IF attachBreak THEN DBG_CONTINUE ELSE DBG_EXCEPTION_NOT_HANDLED
\* lines 209, 230 and 239
ExceptionStatus(attachBreak, firstWow) ==
    IF attachBreak \/ firstWow THEN DBG_CONTINUE ELSE DBG_EXCEPTION_NOT_HANDLED

\* case EXCEPTION_DEBUG_EVENT (lines 192-279)
ExceptionBranch(ev, hThread) ==
    LET firstBp == FirstBreakpoint(ev)
        attachBreak == IgnoreAttachBreakpoint(firstBp)
        firstWow == ~attachBreak /\ FirstWowBreakpoint(ev)
        captured == ~attachBreak /\ ~SkipFirstChance(ev)
        \* line 249
        procs == IF captured
                 THEN Subscript(g_Processes, ev.dwProcessId, DefaultProcessInfo)
                 ELSE g_Processes
    IN  Outcome(procs,
                fBreakpointSignalled \/ firstBp,
                fWowBreakpointSignalled \/ firstWow,
                ExceptionStatus(attachBreak, firstWow),
                SignalEvent(firstBp)
                  \o (IF captured THEN Capture(procs[ev.dwProcessId], ev, hThread) ELSE <<>>),
                fFinished, FALSE)

\* case CREATE_THREAD_DEBUG_EVENT (lines 281-293)
CreateThreadBranch(ev) ==
    LET procs == Subscript(g_Processes, ev.dwProcessId, DefaultProcessInfo)
        pProcessInfo == procs[ev.dwProcessId]
        Threads == Subscript(pProcessInfo.Threads, ev.dwThreadId, DefaultThreadInfo)
    IN  Plain([procs EXCEPT ![ev.dwProcessId].Threads =
                   [Threads EXCEPT ![ev.dwThreadId].hThread = ev.u.hThread]],
              <<>>)

\* case CREATE_PROCESS_DEBUG_EVENT (lines 295-346); symOk is the result of
\* InitializeSym
CreateProcessBranch(ev, symOk) ==
    LET hProcess == ev.u.hProcess
        procs == Subscript(g_Processes, ev.dwProcessId, DefaultProcessInfo)
        pProcessInfo == procs[ev.dwProcessId]
        Threads == Subscript(pProcessInfo.Threads, ev.dwThreadId, DefaultThreadInfo)
        registered == [procs EXCEPT ![ev.dwProcessId] =
                          [hProcess |-> hProcess,
                           Threads |-> [Threads EXCEPT ![ev.dwThreadId].hThread = ev.u.hThread]]]
    IN  IF symOk
        THEN Plain(registered,
                   <<Call("InitializeSym", <<hProcess>>),
                     Call("SymRegisterCallback64", <<hProcess>>),
                     Call("SymLoadModuleEx", <<hProcess>>)>>)
        ELSE Outcome(registered, fBreakpointSignalled, fWowBreakpointSignalled,
                     DBG_CONTINUE, <<Call("InitializeSym", <<hProcess>>)>>, fFinished, TRUE)

\* variant: the stack of a last thread that exits with the abort code is dumped
ExitThreadBranchDumping(ev) ==
    LET procs == Subscript(g_Processes, ev.dwProcessId, DefaultProcessInfo)
        pProcessInfo == procs[ev.dwProcessId]
    IN  Plain([procs EXCEPT ![ev.dwProcessId].Threads = Erase(@, ev.dwThreadId)],
              IF ev.u.dwExitCode = AbortExitCode /\ DOMAIN pProcessInfo.Threads = {ev.dwThreadId}
              THEN <<DumpStackCall(pProcessInfo.hProcess,
                                   pProcessInfo.Threads[ev.dwThreadId].hThread, ev.dwThreadId)>>
              ELSE <<>>)
\* case EXIT_THREAD_DEBUG_EVENT (lines 348-360)
ExitThreadBranch(ev) ==
    LET procs == Subscript(g_Processes, ev.dwProcessId, DefaultProcessInfo)
    IN  Plain([procs EXCEPT ![ev.dwProcessId].Threads = Erase(@, ev.dwThreadId)], <<>>)

\* variant: any process-exit finishes the loop
LoopFinishedAlways(procs) == TRUE
\* variant: fFinished is never set
LoopFinishedNever(procs) == fFinished
\* lines 387-389
LoopFinished(procs) == IF DOMAIN procs = {} THEN TRUE ELSE fFinished

\* variant: the stack is dumped whatever the exit code
DumpOnAbortAlways(hProcess, hThread, dwThreadId, dwExitCode) ==
    <<DumpStackCall(hProcess, hThread, dwThreadId)>>
\* lines 374-378
DumpOnAbort(hProcess, hThread, dwThreadId, dwExitCode) ==
    IF dwExitCode = AbortExitCode
    THEN <<DumpStackCall(hProcess, hThread, dwThreadId)>>
    ELSE <<>>

\* line 381, as an entry of `calls`
EraseCall(dwProcessId) == Call("g_Processes.erase", <<dwProcessId>>)
\* line 383: SymCleanup and what it returns
SymCleanupCall(hProcess, ok) == [op |-> "SymCleanup", args |-> <<hProcess>>, ok |-> ok]

\* case EXIT_PROCESS_DEBUG_EVENT (lines 362-392); cleanupOk is the result of
\* SymCleanup
ExitProcessBranch(ev, cleanupOk) ==
    LET found == Subscript(g_Processes, ev.dwProcessId, DefaultProcessInfo)
        pProcessInfo == found[ev.dwProcessId]
        hProcess == pProcessInfo.hProcess
        \* line 376
        Threads == Subscript(pProcessInfo.Threads, ev.dwThreadId, DefaultThreadInfo)
        \* line 381
        procs == Erase(found, ev.dwProcessId)
    IN  Outcome(procs, fBreakpointSignalled, fWowBreakpointSignalled, DBG_CONTINUE,
                DumpOnAbort(hProcess, Threads[ev.dwThreadId].hThread, ev.dwThreadId,
                            ev.u.dwExitCode)
                  \o <<EraseCall(ev.dwProcessId), SymCleanupCall(hProcess, cleanupOk)>>,
                LoopFinished(procs), FALSE)

\* case LOAD_DLL_DEBUG_EVENT (lines 394-408)
LoadDllBranch(ev) ==
    LET procs == Subscript(g_Processes, ev.dwProcessId, DefaultProcessInfo)
    IN  Plain(procs, <<Call("SymLoadModuleEx", <<procs[ev.dwProcessId].hProcess>>)>>)

\* case UNLOAD_DLL_DEBUG_EVENT (lines 410-424)
UnloadDllBranch(ev) ==
    LET procs == Subscript(g_Processes, ev.dwProcessId, DefaultProcessInfo)
    IN  Plain(procs, <<Call("SymUnloadModule64", <<procs[ev.dwProcessId].hProcess>>)>>)

\* case OUTPUT_DEBUG_STRING_EVENT (lines 426-446)
OutputDebugStringBranch(ev) ==
    LET procs == Subscript(g_Processes, ev.dwProcessId, DefaultProcessInfo)
    IN  Plain(procs, <<Call("ReadProcessMemory", <<procs[ev.dwProcessId].hProcess>>)>>)

\* case RIP_EVENT and default (lines 448-465)
NoOpBranch(ev) == Plain(g_Processes, <<>>)

\* variant: the initial status is passed instead of the computed one
ContinueDebugEventCallDefault(ev, status) ==
    <<Call("ContinueDebugEvent", <<ev.dwProcessId, ev.dwThreadId, DBG_CONTINUE>>)>>
\* lines 468-473
ContinueDebugEventCall(ev, status) ==
    <<Call("ContinueDebugEvent", <<ev.dwProcessId, ev.dwThreadId, status>>)>>

\* line 173 and line 476: the loop test after an iteration
AfterIteration(finished) == IF finished THEN "returnedTRUE" ELSE "wait"

\* variant: the failure of InitializeSym is returned to the caller
AfterSymFailureReturn == "returnedFALSE"
\* lines 336-339: exit(EXIT_FAILURE) ends the program inside the branch
AfterSymFailure == "exited"

(***************************************************************************)
(* The notification stream.  An event is well-formed when it lies between  *)
(* its process's process-create and process-exit, a thread-exit names a    *)
(* live thread, a thread-create a thread that is not live, and a process   *)
(* is created at most once.  Once an ill-formed event has been delivered   *)
(* the history is no longer kept.                                          *)
(***************************************************************************)
WellFormedEvent(ev) ==
    CASE ev.dwDebugEventCode = "CREATE_PROCESS_DEBUG_EVENT" ->
            ev.dwProcessId \notin DOMAIN live /\ ev.dwProcessId \notin exited
      [] ev.dwDebugEventCode = "CREATE_THREAD_DEBUG_EVENT" ->
            ev.dwProcessId \in DOMAIN live /\ ev.dwThreadId \notin live[ev.dwProcessId]
      [] ev.dwDebugEventCode = "EXIT_THREAD_DEBUG_EVENT" ->
            ev.dwProcessId \in DOMAIN live /\ ev.dwThreadId \in live[ev.dwProcessId]
      [] OTHER -> ev.dwProcessId \in DOMAIN live

LiveAfter(ev) ==
    CASE ev.dwDebugEventCode = "CREATE_PROCESS_DEBUG_EVENT" ->
            live @@ (ev.dwProcessId :> {ev.dwThreadId})
      [] ev.dwDebugEventCode = "CREATE_THREAD_DEBUG_EVENT" ->
            [live EXCEPT ![ev.dwProcessId] = @ \cup {ev.dwThreadId}]
      [] ev.dwDebugEventCode = "EXIT_THREAD_DEBUG_EVENT" ->
            [live EXCEPT ![ev.dwProcessId] = @ \ {ev.dwThreadId}]
      [] ev.dwDebugEventCode = "EXIT_PROCESS_DEBUG_EVENT" ->
            [p \in DOMAIN live \ {ev.dwProcessId} |-> live[p]]
      [] OTHER -> live

IsFirstChanceBreakpoint(ev) ==
    /\ ev.dwDebugEventCode = "EXCEPTION_DEBUG_EVENT"
    /\ ev.u.dwFirstChance
    /\ ev.u.ExceptionCode = STATUS_BREAKPOINT

Delivered(ev) ==
    /\ IF wellFormed /\ WellFormedEvent(ev)
       THEN /\ wellFormed' = TRUE
            /\ live' = LiveAfter(ev)
            /\ exited' = IF ev.dwDebugEventCode = "EXIT_PROCESS_DEBUG_EVENT"
                         THEN exited \cup {ev.dwProcessId} ELSE exited
       ELSE /\ wellFormed' = FALSE
            /\ live' = [p \in {} |-> {}]
            /\ exited' = {}
    /\ firstFcBp' = IF IsFirstChanceBreakpoint(ev) /\ firstFcBp = "none" THEN "this"
                    ELSE firstFcBp
    /\ attachPid' = IF IsFirstChanceBreakpoint(ev) /\ firstFcBp = "none" THEN ev.dwProcessId
                    ELSE attachPid

(***************************************************************************)
(* One pass through the loop body (lines 175-473) for event ev, whose      *)
(* branch yields r.                                                        *)
(***************************************************************************)
Iteration(ev, r) ==
    /\ pc = "wait"
    /\ waitOk' = TRUE
    /\ DebugEvent' = ev
    /\ g_Processes' = r.procs
    /\ fBreakpointSignalled' = r.bp
    /\ fWowBreakpointSignalled' = r.wow
    /\ dwContinueStatus' = r.status
    /\ fFinished' = r.finished
    /\ hEventLog' = hEventLog \o SelectCalls(r.calls, {"SetEvent", "CloseHandle"})
    /\ IF r.exit
       THEN /\ calls' = r.calls
            /\ pc' = AfterSymFailure
       ELSE /\ calls' = r.calls \o ContinueDebugEventCall(ev, r.status)
            /\ pc' = "iterated"
    /\ Delivered(ev)
    /\ UNCHANGED <<pOptions, reader>>

\* lines 173-174 and 476: the loop test; the locals of the body go out of
\* scope when the loop goes round
LoopTest ==
    /\ pc = "iterated"
    /\ pc' = AfterIteration(fFinished)
    /\ IF fFinished
       THEN UNCHANGED <<DebugEvent, dwContinueStatus, calls, firstFcBp>>
       ELSE /\ DebugEvent' = NoEvent
            /\ dwContinueStatus' = DBG_CONTINUE
            /\ calls' = <<>>
            /\ firstFcBp' = IF firstFcBp = "none" THEN "none" ELSE "past"
    /\ UNCHANGED <<g_Processes, fFinished, fBreakpointSignalled, fWowBreakpointSignalled,
                   pOptions, hEventLog, waitOk, reader, live, exited, wellFormed,
                   attachPid>>

\* lines 183-188: WaitForDebugEvent fails
WaitFails ==
    /\ pc = "wait"
    /\ waitOk' = FALSE
    /\ pc' = "returnedFALSE"
    /\ UNCHANGED <<g_Processes, fFinished, fBreakpointSignalled, fWowBreakpointSignalled,
                   pOptions, DebugEvent, dwContinueStatus, calls, hEventLog,
                   reader, live, exited, wellFormed, firstFcBp, attachPid>>

ExceptionEvent(t, code, fc) ==
    Event("EXCEPTION_DEBUG_EVENT", t, [ExceptionCode |-> code, dwFirstChance |-> fc])
CreateThreadEvent(t) ==
    Event("CREATE_THREAD_DEBUG_EVENT", t, [hThread |-> ThreadHandle(t)])
CreateProcessEvent(t) ==
    Event("CREATE_PROCESS_DEBUG_EVENT", t,
          [hProcess |-> ProcessHandle(Owner(t)), hThread |-> ThreadHandle(t)])
ExitThreadEvent(t, code) == Event("EXIT_THREAD_DEBUG_EVENT", t, [dwExitCode |-> code])
ExitProcessEvent(t, code) == Event("EXIT_PROCESS_DEBUG_EVENT", t, [dwExitCode |-> code])

OnException ==
    /\ pc = "wait"
    /\ \E t \in TIDs, code \in ExceptionCodes, fc \in BOOLEAN :
          \E r \in {ExceptionBranch(ExceptionEvent(t, code, fc), h) : h \in IndeterminateHandles} :
              Iteration(ExceptionEvent(t, code, fc), r)

OnCreateThread ==
    /\ pc = "wait"
    /\ \E t \in TIDs : Iteration(CreateThreadEvent(t), CreateThreadBranch(CreateThreadEvent(t)))

OnCreateProcess ==
    /\ pc = "wait"
    /\ \E t \in TIDs, symOk \in BOOLEAN :
          Iteration(CreateProcessEvent(t), CreateProcessBranch(CreateProcessEvent(t), symOk))

OnExitThread ==
    /\ pc = "wait"
    /\ \E t \in TIDs, code \in ExitCodes :
          Iteration(ExitThreadEvent(t, code), ExitThreadBranch(ExitThreadEvent(t, code)))

OnExitProcess ==
    /\ pc = "wait"
    /\ \E t \in TIDs, code \in ExitCodes, cleanupOk \in BOOLEAN :
          Iteration(ExitProcessEvent(t, code),
                    ExitProcessBranch(ExitProcessEvent(t, code), cleanupOk))

OnLoadDll ==
    /\ pc = "wait"
    /\ \E t \in TIDs : Iteration(Event("LOAD_DLL_DEBUG_EVENT", t, <<>>),
                              LoadDllBranch(Event("LOAD_DLL_DEBUG_EVENT", t, <<>>)))

OnUnloadDll ==
    /\ pc = "wait"
    /\ \E t \in TIDs : Iteration(Event("UNLOAD_DLL_DEBUG_EVENT", t, <<>>),
                              UnloadDllBranch(Event("UNLOAD_DLL_DEBUG_EVENT", t, <<>>)))

OnOutputDebugString ==
    /\ pc = "wait"
    /\ \E t \in TIDs : Iteration(Event("OUTPUT_DEBUG_STRING_EVENT", t, <<>>),
                              OutputDebugStringBranch(Event("OUTPUT_DEBUG_STRING_EVENT", t, <<>>)))

OnRip ==
    /\ pc = "wait"
    /\ \E t \in TIDs : Iteration(Event("RIP_EVENT", t, <<>>), NoOpBranch(Event("RIP_EVENT", t, <<>>)))

OnUnrecognized ==
    /\ pc = "wait"
    /\ \E t \in TIDs : Iteration(Event("UNRECOGNIZED_EVENT", t, <<>>),
                              NoOpBranch(Event("UNRECOGNIZED_EVENT", t, <<>>)))

Next ==
    \/ WaitFails
    \/ LoopTest
    \/ OnException
    \/ OnCreateThread
    \/ OnCreateProcess
    \/ OnExitThread
    \/ OnExitProcess
    \/ OnLoadDll
    \/ OnUnloadDll
    \/ OnOutputDebugString
    \/ OnRip
    \/ OnUnrecognized

Spec == Init /\ [][Next]_vars

(***************************************************************************)
(* The loop under an orderly environment: WaitForDebugEvent and            *)
(* InitializeSym never fail, the stream stays well-formed, and every       *)
(* process that was created delivers its process-exit.                     *)
(***************************************************************************)
Orderly == wellFormed' /\ pc' \notin {"exited", "returnedFALSE"}

\* the process-exit of process p is delivered
ExitOf(p) ==
    /\ pc = "wait"
    /\ p \in DOMAIN live
    /\ \E t \in TIDs, code \in ExitCodes, cleanupOk \in BOOLEAN :
          /\ Owner(t) = p
          /\ Iteration(ExitProcessEvent(t, code),
                       ExitProcessBranch(ExitProcessEvent(t, code), cleanupOk))

OrderlyNext ==
    \/ LoopTest
    \/ OnException /\ Orderly
    \/ OnCreateThread /\ Orderly
    \/ OnCreateProcess /\ Orderly
    \/ OnExitThread /\ Orderly
    \/ OnExitProcess /\ Orderly
    \/ OnLoadDll /\ Orderly
    \/ OnUnloadDll /\ Orderly
    \/ OnOutputDebugString /\ Orderly
    \/ OnRip /\ Orderly
    \/ OnUnrecognized /\ Orderly

LiveSpec ==
    /\ Init
    /\ [][OrderlyNext]_vars
    /\ WF_vars(LoopTest)
    /\ \A p \in PIDs : SF_vars(ExitOf(p))

(***************************************************************************)
(* readProcessString on its own: the arguments are drawn at the start, the *)
(* call is one step, with whatever ReadProcessMemory answers.              *)
(***************************************************************************)
Strings == UNION {[1..n -> Chars] : n \in 0..MaxLen}

ReaderInit ==
    /\ LoopInit
    /\ \E remote \in Strings :
          reader = [phase |-> "called", remote |-> remote, nSize |-> Len(remote)]

ReaderReturns(ok, NumberOfBytesRead) ==
    /\ reader.phase = "called"
    /\ reader' = [phase |-> "returned", remote |-> reader.remote, nSize |-> reader.nSize,
                  ok |-> ok, NumberOfBytesRead |-> NumberOfBytesRead,
                  lpszBuffer |-> readProcessString(reader.remote, reader.nSize,
                                                   ok, NumberOfBytesRead)]
    /\ UNCHANGED <<g_Processes, fFinished, fBreakpointSignalled, fWowBreakpointSignalled,
                   pOptions, pc, DebugEvent, dwContinueStatus, calls, hEventLog, waitOk,
                   live, exited, wellFormed, firstFcBp, attachPid>>

\* ReadProcessMemory succeeds: nSize chars were read
ReadSucceeds == ReaderReturns(TRUE, reader.nSize)

\* ReadProcessMemory fails after transferring n chars
ReadFails == \E n \in 0..reader.nSize : ReaderReturns(FALSE, n)

ReaderNext == ReadSucceeds \/ ReadFails

ReaderSpec == ReaderInit /\ [][ReaderNext]_vars

(***************************************************************************)
(* Properties.                                                             *)
(***************************************************************************)
Processed(code) == DebugEvent.dwDebugEventCode = code
Count(ops) == Len(SelectCalls(calls, ops))
CaptureOps == {"SymRefreshModuleList", "dumpException", "dumpStack"}
SecondChance == Processed("EXCEPTION_DEBUG_EVENT") /\ ~DebugEvent.u.dwFirstChance
FirstChance == Processed("EXCEPTION_DEBUG_EVENT") /\ DebugEvent.u.dwFirstChance
Registered(pid) == pid \in DOMAIN g_Processes
RegisteredThreads(pid) == IF Registered(pid) THEN DOMAIN g_Processes[pid].Threads ELSE {}
\* a step of the loop that received a notification
EventStep == pc = "wait" /\ pc' # "returnedFALSE"

\* C1: the loop returns TRUE exactly after an iteration that processed a
\* process-exit which left g_Processes empty: such an iteration is followed by
\* the return, any other iteration by the next WaitForDebugEvent, and when
\* the loop has returned TRUE the registry is empty and the last notification
\* is a process-exit.
C1_SuccessIffExitEmptiesRegistry ==
    /\ [](pc = "returnedTRUE" =>
            Processed("EXIT_PROCESS_DEBUG_EVENT") /\ DOMAIN g_Processes = {})
    /\ [][pc = "iterated" =>
            pc' = IF Processed("EXIT_PROCESS_DEBUG_EVENT") /\ DOMAIN g_Processes = {}
                  THEN "returnedTRUE" ELSE "wait"]_vars
    /\ [][pc' = "returnedTRUE" => pc = "iterated"]_vars

C1_Witness ==
    pc = "returnedTRUE" /\ wellFormed /\ Cardinality(exited) = MaxPid

\* C2: while the notification stream is well-formed, the registry holds
\* exactly the processes created and not yet exited, each with exactly its
\* threads created (the initial one included) and not yet exited.
C2_RegistryMatchesStream ==
    wellFormed =>
        /\ DOMAIN g_Processes = DOMAIN live
        /\ \A p \in DOMAIN live : DOMAIN g_Processes[p].Threads = live[p]

C2_Witness ==
    /\ wellFormed
    /\ Processed("EXIT_THREAD_DEBUG_EVENT")
    /\ Cardinality(DOMAIN live) = MaxPid
    /\ \E p \in DOMAIN live : live[p] = {}
    /\ \E p \in DOMAIN live : Cardinality(live[p]) > 1

\* C4: with breakpoint_flag false the first first-chance breakpoint of the
\* session is resumed with DBG_CONTINUE and makes no symbol refresh, no
\* dumpException, no dumpStack and no TerminateProcess, whatever first_chance
\* and verbose_flag are and however many processes are registered.
C4_AttachBreakpointSilent ==
    (firstFcBp = "this" /\ ~pOptions.breakpoint_flag) =>
        /\ dwContinueStatus = DBG_CONTINUE
        /\ Count(CaptureOps \cup {"TerminateProcess"}) = 0
        /\ calls[Len(calls)] =
              Call("ContinueDebugEvent",
                   <<DebugEvent.dwProcessId, DebugEvent.dwThreadId, DBG_CONTINUE>>)

C4_Witness ==
    /\ firstFcBp = "this" /\ ~pOptions.breakpoint_flag
    /\ pOptions.first_chance /\ pOptions.verbose_flag
    /\ wellFormed /\ Cardinality(DOMAIN g_Processes) = MaxPid
    /\ Count(CaptureOps) = 0

\* the stack dumps the dump loop of lines 258-268 makes for the last event
DumpsExpected ==
    IF pOptions.verbose_flag \/ DebugEvent.u.ExceptionCode = STATUS_BREAKPOINT
    THEN Cardinality(RegisteredThreads(DebugEvent.dwProcessId))
    ELSE IF DebugEvent.dwThreadId \in RegisteredThreads(DebugEvent.dwProcessId) THEN 1 ELSE 0

\* C5 (as amended): a second-chance exception makes exactly one dumpException,
\* one dumpStack per thread selected - every registered thread of the process
\* when verbose_flag is set or the code is STATUS_BREAKPOINT, otherwise the
\* faulting thread alone (exactly 1 when it is registered) - and exactly one
\* TerminateProcess, on the handle registered for the reporting process (the
\* handle of its process-create in a well-formed stream), with the exception
\* code as exit code.
C5_SecondChanceCapture ==
    SecondChance =>
        /\ Count({"dumpException"}) = 1
        /\ Count({"dumpStack"}) = DumpsExpected
        /\ SelectCalls(calls, {"TerminateProcess"}) =
              <<Call("TerminateProcess",
                     <<g_Processes[DebugEvent.dwProcessId].hProcess,
                       DebugEvent.u.ExceptionCode>>)>>
        /\ wellFormed =>
              g_Processes[DebugEvent.dwProcessId].hProcess
                  = ProcessHandle(DebugEvent.dwProcessId)

C5_Witness ==
    /\ SecondChance /\ wellFormed
    /\ DebugEvent.u.ExceptionCode = STATUS_BREAKPOINT
    /\ ~pOptions.verbose_flag
    /\ Count({"dumpStack"}) > 1
    /\ Count({"TerminateProcess"}) = 1

\* C5 as stated: exactly 1 stack dump when verbose_flag is false, one per live
\* thread when it is true (here for a well-formed stream and a faulting thread
\* that is registered).
C5_AsStated ==
    (SecondChance /\ wellFormed
       /\ DebugEvent.dwThreadId \in RegisteredThreads(DebugEvent.dwProcessId)) =>
        Count({"dumpStack"}) =
            IF pOptions.verbose_flag
            THEN Cardinality(RegisteredThreads(DebugEvent.dwProcessId))
            ELSE 1

\* C6: with first_chance false, a first-chance exception that is neither
\* STATUS_BREAKPOINT nor STATUS_WX86_BREAKPOINT is resumed with
\* DBG_EXCEPTION_NOT_HANDLED, makes no other call, and leaves the two session
\* flags as they were.
C6_FirstChancePassedThrough ==
    [][(/\ EventStep
        /\ ~pOptions.first_chance
        /\ DebugEvent'.dwDebugEventCode = "EXCEPTION_DEBUG_EVENT"
        /\ DebugEvent'.u.dwFirstChance
        /\ DebugEvent'.u.ExceptionCode \notin {STATUS_BREAKPOINT, STATUS_WX86_BREAKPOINT})
       => /\ dwContinueStatus' = DBG_EXCEPTION_NOT_HANDLED
          /\ calls' = <<Call("ContinueDebugEvent",
                             <<DebugEvent'.dwProcessId, DebugEvent'.dwThreadId,
                               DBG_EXCEPTION_NOT_HANDLED>>)>>
          /\ fBreakpointSignalled' = fBreakpointSignalled
          /\ fWowBreakpointSignalled' = fWowBreakpointSignalled]_vars

C6_Witness ==
    /\ FirstChance /\ ~pOptions.first_chance
    /\ DebugEvent.u.ExceptionCode = STATUS_ACCESS_VIOLATION
    /\ wellFormed
    /\ fBreakpointSignalled /\ ~fWowBreakpointSignalled
    /\ Len(calls) = 1 /\ dwContinueStatus = DBG_EXCEPTION_NOT_HANDLED

HEventCalls ==
    <<Call("SetEvent", <<pOptions.hEvent>>), Call("CloseHandle", <<pOptions.hEvent>>)>>

\* C7: when hEvent is configured it is signalled once and closed once, in this
\* order, by the iteration that processes the first first-chance breakpoint of
\* the run; no iteration before or after it touches the handle, whatever
\* breakpoint_flag and first_chance are.
C7_EventSignalledOnce ==
    /\ hEventLog = IF pOptions.hEvent # NULL /\ firstFcBp # "none"
                   THEN HEventCalls ELSE <<>>
    /\ SelectCalls(calls, {"SetEvent", "CloseHandle"})
          = IF pOptions.hEvent # NULL /\ firstFcBp = "this" THEN HEventCalls ELSE <<>>

C7_Witness ==
    /\ pOptions.hEvent # NULL
    /\ firstFcBp = "past"
    /\ FirstChance /\ DebugEvent.u.ExceptionCode = STATUS_BREAKPOINT
    /\ hEventLog = HEventCalls
    /\ Count({"SetEvent", "CloseHandle"}) = 0

\* C8: every iteration that received a notification and did not leave through
\* exit(EXIT_FAILURE) makes exactly one ContinueDebugEvent, as its last call,
\* with the notification's process id and thread id and the status computed;
\* the iteration that leaves through exit makes none.
C8_OneResumePerEvent ==
    /\ (DebugEvent # NoEvent /\ pc # "exited") =>
          /\ Count({"ContinueDebugEvent"}) = 1
          /\ calls[Len(calls)] =
                Call("ContinueDebugEvent",
                     <<DebugEvent.dwProcessId, DebugEvent.dwThreadId, dwContinueStatus>>)
    /\ pc = "exited" => Count({"ContinueDebugEvent"}) = 0

C8_Witness ==
    /\ pc = "returnedTRUE"
    /\ calls[Len(calls)].op = "ContinueDebugEvent"
    /\ firstFcBp = "past"

\* C9: TerminateProcess is called only by an iteration that processes a
\* second-chance exception; it is passed the handle registered for the
\* reporting process, and it comes after the symbol refresh, dumpException and
\* the stack dumps of that exception and right before its ContinueDebugEvent.
C9_TerminateOnlySecondChance ==
    \A i \in 1..Len(calls) :
        calls[i].op = "TerminateProcess" =>
            /\ SecondChance
            /\ calls[i].args[1] = g_Processes[DebugEvent.dwProcessId].hProcess
            /\ wellFormed => calls[i].args[1] = ProcessHandle(DebugEvent.dwProcessId)
            /\ i > 2
            /\ calls[1].op = "SymRefreshModuleList"
            /\ calls[2].op = "dumpException"
            /\ \A j \in 3..(i - 1) : calls[j].op = "dumpStack"
            /\ Len(calls) = i + 1
            /\ calls[i + 1].op = "ContinueDebugEvent"

C9_Witness ==
    /\ SecondChance /\ wellFormed
    /\ Count({"dumpStack"}) > 0
    /\ Len(calls) > 3
    /\ calls[Len(calls) - 1].op = "TerminateProcess"

\* C10: the loop returns FALSE only from a failed WaitForDebugEvent; that step
\* makes no call, leaves the registry, the session flags and everything else
\* as they were, and nothing follows it (no second receive).
C10_FailureOnlyFromWait ==
    /\ [][pc' = "returnedFALSE" =>
            /\ pc = "wait"
            /\ ~waitOk'
            /\ UNCHANGED <<g_Processes, fFinished, fBreakpointSignalled,
                           fWowBreakpointSignalled, DebugEvent, dwContinueStatus,
                           calls, hEventLog>>]_vars
    /\ [][pc # "returnedFALSE"]_vars

C10_Witness ==
    /\ pc = "returnedFALSE" /\ ~waitOk
    /\ DOMAIN g_Processes # {}
    /\ fBreakpointSignalled

\* C3: under an orderly environment (LiveSpec), once a process has been
\* created the loop eventually returns TRUE, and it returns on the
\* process-exit of the last process that remained.
C3_EventuallyReturnsSuccess ==
    /\ (DOMAIN live # {}) ~> (pc = "returnedTRUE")
    /\ [](pc = "returnedTRUE" =>
            /\ Processed("EXIT_PROCESS_DEBUG_EVENT")
            /\ DebugEvent.dwProcessId \in exited
            /\ DOMAIN live = {})

C3_Witness ==
    /\ pc = "returnedTRUE"
    /\ Cardinality(exited) = MaxPid
    /\ fBreakpointSignalled

\* C11: readProcessString returns a buffer of nSize + 1 chars whose char at
\* index NumberOfBytesRead (at most nSize) is the terminator, so the string
\* it denotes has at most nSize chars; when ReadProcessMemory succeeded with
\* nSize chars the nSize chars before the terminator are the remote ones, and
\* the string is the remote one when that holds no NUL; when it failed with 0
\* chars the string is empty.
C11_ReadProcessString ==
    reader.phase = "returned" =>
        /\ Len(reader.lpszBuffer) = reader.nSize + 1
        /\ reader.NumberOfBytesRead <= reader.nSize
        /\ reader.lpszBuffer[reader.NumberOfBytesRead + 1] = NUL
        /\ Len(CString(reader.lpszBuffer)) <= reader.nSize
        /\ \A i \in 1..Len(CString(reader.lpszBuffer)) :
              CString(reader.lpszBuffer)[i] # Indeterminate
        /\ (reader.ok /\ reader.NumberOfBytesRead = reader.nSize) =>
              /\ SubSeq(reader.lpszBuffer, 1, reader.nSize) = reader.remote
              /\ (\A i \in 1..reader.nSize : reader.remote[i] # NUL) =>
                    CString(reader.lpszBuffer) = reader.remote
        /\ (~reader.ok /\ reader.NumberOfBytesRead = 0) =>
              CString(reader.lpszBuffer) = <<>>

C11_Witness ==
    /\ reader.phase = "returned"
    /\ reader.ok
    /\ reader.nSize = MaxLen
    /\ CString(reader.lpszBuffer) = reader.remote

\* C12 as stated: every dumpStack of an exception capture is passed the handle
\* registered for the thread the dump loop is at.
C12_DumpUsesIteratedThreadHandle ==
    (wellFormed /\ Processed("EXCEPTION_DEBUG_EVENT")) =>
        \A i \in 1..Len(calls) :
            calls[i].op = "dumpStack" =>
                calls[i].args[2]
                    = g_Processes[DebugEvent.dwProcessId].Threads[calls[i].it].hThread

\* the last notification is an exception that was captured (lines 248-276)
Captured == Processed("EXCEPTION_DEBUG_EVENT") /\ Count({"dumpException"}) = 1
\* the step receives an exception with this code
ExceptionStep(code) ==
    /\ EventStep
    /\ DebugEvent'.dwDebugEventCode = "EXCEPTION_DEBUG_EVENT"
    /\ DebugEvent'.u.ExceptionCode = code
\* the status of the last ContinueDebugEvent
Resumed == calls[Len(calls)].args[3]

\* C13 (as amended): an exception that is captured is resumed with
\* DBG_EXCEPTION_NOT_HANDLED, except the first-chance STATUS_WX86_BREAKPOINT
\* received while fWowBreakpointSignalled was unset: with first_chance set it
\* is captured and resumed with DBG_CONTINUE.
C13_CapturedDisposition ==
    [][(EventStep /\ Captured') =>
          /\ dwContinueStatus' =
                IF /\ DebugEvent'.u.dwFirstChance
                   /\ DebugEvent'.u.ExceptionCode = STATUS_WX86_BREAKPOINT
                   /\ ~fWowBreakpointSignalled
                THEN DBG_CONTINUE ELSE DBG_EXCEPTION_NOT_HANDLED
          /\ Resumed' = dwContinueStatus']_vars

C13_Witness ==
    /\ Captured /\ FirstChance /\ wellFormed
    /\ DebugEvent.u.ExceptionCode = STATUS_WX86_BREAKPOINT
    /\ pOptions.first_chance
    /\ Count({"dumpStack"}) > 0
    /\ Resumed = DBG_CONTINUE

\* C13 as stated: a captured exception is resumed with DBG_EXCEPTION_NOT_HANDLED.
C13_AsStated ==
    (wellFormed /\ Captured) =>
        dwContinueStatus = DBG_EXCEPTION_NOT_HANDLED /\ Resumed = DBG_EXCEPTION_NOT_HANDLED

\* how an exception that is no first sighting of a breakpoint is treated
\* (lines 243-276): not captured when first-chance with first_chance unset,
\* terminated when second-chance, resumed with DBG_EXCEPTION_NOT_HANDLED
Ordinary ==
    /\ dwContinueStatus = DBG_EXCEPTION_NOT_HANDLED
    /\ Resumed = DBG_EXCEPTION_NOT_HANDLED
    /\ Captured <=> (~DebugEvent.u.dwFirstChance \/ pOptions.first_chance)
    /\ Count({"dumpException"}) = Count({"SymRefreshModuleList"})
    /\ Count({"TerminateProcess"}) = IF DebugEvent.u.dwFirstChance THEN 0 ELSE 1

\* C14 (as amended): the first-chance STATUS_WX86_BREAKPOINT received while
\* fWowBreakpointSignalled is unset sets the flag and is resumed with
\* DBG_CONTINUE (captured exactly when first_chance is set, never terminated);
\* every other exception with that code - any one once the flag is set, and a
\* second-chance one before - leaves the flag as it was and is treated as an
\* ordinary exception; the flag is never unset.
C14_WowBreakpoint ==
    /\ [][ExceptionStep(STATUS_WX86_BREAKPOINT) =>
            IF DebugEvent'.u.dwFirstChance /\ ~fWowBreakpointSignalled
            THEN /\ fWowBreakpointSignalled'
                 /\ dwContinueStatus' = DBG_CONTINUE /\ Resumed' = DBG_CONTINUE
                 /\ Captured' <=> pOptions.first_chance
                 /\ Count({"TerminateProcess"})' = 0
            ELSE /\ fWowBreakpointSignalled' = fWowBreakpointSignalled
                 /\ Ordinary']_vars
    /\ [][fWowBreakpointSignalled => fWowBreakpointSignalled']_vars

C14_Witness ==
    /\ FirstChance /\ wellFormed
    /\ DebugEvent.u.ExceptionCode = STATUS_WX86_BREAKPOINT
    /\ fWowBreakpointSignalled
    /\ ~pOptions.first_chance
    /\ dwContinueStatus = DBG_CONTINUE
    /\ Len(calls) = 1

\* C14 as stated: an exception with code STATUS_WX86_BREAKPOINT leaves the
\* flag set; the one received while it is unset is resumed with DBG_CONTINUE,
\* the later ones are treated as ordinary exceptions.
C14_AsStated ==
    [][(ExceptionStep(STATUS_WX86_BREAKPOINT) /\ wellFormed') =>
          /\ fWowBreakpointSignalled'
          /\ IF ~fWowBreakpointSignalled
             THEN dwContinueStatus' = DBG_CONTINUE /\ Resumed' = DBG_CONTINUE
             ELSE Ordinary']_vars

\* the threads the dump loop selects for the last event (lines 258-264), in a
\* well-formed stream
Selected ==
    IF pOptions.verbose_flag \/ DebugEvent.u.ExceptionCode = STATUS_BREAKPOINT
    THEN live[DebugEvent.dwProcessId]
    ELSE {DebugEvent.dwThreadId} \cap live[DebugEvent.dwProcessId]
\* the thread handles the stack dumps of the last event were passed
DumpedHandles == {calls[i].args[2] : i \in {j \in 1..Len(calls) : calls[j].op = "dumpStack"}}

\* the dump loop reaches dumpStack once for each thread selected, in the
\* order of the thread ids, with the handle of the reporting process
DumpLoopSelection ==
    (wellFormed /\ Captured) =>
        LET dumps == SelectCalls(calls, {"dumpStack"})
        IN  /\ [i \in 1..Len(dumps) |-> dumps[i].it] = KeysInOrder(Selected)
            /\ \A i \in 1..Len(dumps) :
                  dumps[i].args[1] = ProcessHandle(DebugEvent.dwProcessId)

\* C15 as stated: the stacks dumped by a capture are those of the threads
\* selected - every live thread of the reporting process when verbose_flag is
\* set or the code is STATUS_BREAKPOINT, otherwise the faulting thread alone -
\* one dump for each, none for a thread of another process.
C15_DumpedThreadSet ==
    (wellFormed /\ Captured) =>
        /\ Count({"dumpStack"}) = Cardinality(Selected)
        /\ DumpedHandles = {ThreadHandle(t) : t \in Selected}

C17_ExitThreadNeverDumps ==
    Processed("EXIT_THREAD_DEBUG_EVENT") =>
        /\ Count({"dumpStack"}) = 0
        /\ Len(calls) = 1
        /\ DebugEvent.dwThreadId \notin RegisteredThreads(DebugEvent.dwProcessId)

C17_Witness ==
    /\ Processed("EXIT_THREAD_DEBUG_EVENT") /\ wellFormed
    /\ DebugEvent.u.dwExitCode = AbortExitCode
    /\ live[DebugEvent.dwProcessId] = {}
    /\ RegisteredThreads(DebugEvent.dwProcessId) = {}
    /\ Count({"dumpStack"}) = 0

\* C17 as stated: the thread-exit of the last thread of a process with exit
\* code 3 makes a stack dump.
C17_AsStated ==
    (/\ wellFormed
     /\ Processed("EXIT_THREAD_DEBUG_EVENT")
     /\ DebugEvent.u.dwExitCode = AbortExitCode
     /\ live[DebugEvent.dwProcessId] = {}) =>
        Count({"dumpStack"}) >= 1

\* the handles registered before the step for the process and the thread that
\* report the notification of the step (NULL where there is none)
ReportingProcessHandle ==
    IF Registered(DebugEvent'.dwProcessId)
    THEN g_Processes[DebugEvent'.dwProcessId].hProcess ELSE NULL
ReportingThreadHandle ==
    IF DebugEvent'.dwThreadId \in RegisteredThreads(DebugEvent'.dwProcessId)
    THEN g_Processes[DebugEvent'.dwProcessId].Threads[DebugEvent'.dwThreadId].hThread
    ELSE NULL

\* C18: a process-exit makes, in this order: one stack dump with the handles
\* registered for the reporting process and thread if the exit code is 3 and
\* none otherwise, the removal of the process record, one SymCleanup on the
\* handle of the process, and the resume; whether SymCleanup succeeds or
\* fails the record is gone afterwards and the loop finishes exactly when the
\* registry is empty.  In a well-formed stream the handles are those of the
\* process-create and of the thread's creation.
C18_ProcessExit ==
    [][(EventStep /\ DebugEvent'.dwDebugEventCode = "EXIT_PROCESS_DEBUG_EVENT") =>
          /\ \E ok \in BOOLEAN :
                calls' = (IF DebugEvent'.u.dwExitCode = AbortExitCode
                          THEN <<DumpStackCall(ReportingProcessHandle, ReportingThreadHandle,
                                               DebugEvent'.dwThreadId)>>
                          ELSE <<>>)
                         \o <<EraseCall(DebugEvent'.dwProcessId),
                              SymCleanupCall(ReportingProcessHandle, ok),
                              Call("ContinueDebugEvent",
                                   <<DebugEvent'.dwProcessId, DebugEvent'.dwThreadId,
                                     dwContinueStatus'>>)>>
          /\ DebugEvent'.dwProcessId \notin DOMAIN g_Processes'
          /\ DOMAIN g_Processes' = DOMAIN g_Processes \ {DebugEvent'.dwProcessId}
          /\ pc' = "iterated"
          /\ fFinished' <=> (fFinished \/ DOMAIN g_Processes' = {})
          /\ wellFormed' =>
                /\ ReportingProcessHandle = ProcessHandle(DebugEvent'.dwProcessId)
                /\ DebugEvent'.dwThreadId \in live[DebugEvent'.dwProcessId] =>
                      ReportingThreadHandle = ThreadHandle(DebugEvent'.dwThreadId)]_vars

C18_Witness ==
    /\ Processed("EXIT_PROCESS_DEBUG_EVENT") /\ wellFormed
    /\ DebugEvent.u.dwExitCode = AbortExitCode
    /\ pc = "returnedTRUE"
    /\ Len(calls) = 4
    /\ calls[1] = DumpStackCall(ProcessHandle(DebugEvent.dwProcessId),
                                ThreadHandle(DebugEvent.dwThreadId), DebugEvent.dwThreadId)
    /\ calls[3].op = "SymCleanup" /\ ~calls[3].ok

\* C19 (as amended): dwContinueStatus starts every iteration as DBG_CONTINUE,
\* and every notification that is not an exception is resumed with it.
C19_DefaultDisposition ==
    /\ pc = "wait" => dwContinueStatus = DBG_CONTINUE
    /\ (DebugEvent # NoEvent /\ ~Processed("EXCEPTION_DEBUG_EVENT") /\ pc # "exited") =>
          dwContinueStatus = DBG_CONTINUE /\ Resumed = DBG_CONTINUE

C19_Witness ==
    /\ Processed("RIP_EVENT") /\ wellFormed
    /\ fBreakpointSignalled
    /\ pc = "iterated"
    /\ Resumed = DBG_CONTINUE

\* C19 as stated: a notification that is not an exception is resumed with
\* the default status, and that is DBG_EXCEPTION_NOT_HANDLED.
C19_AsStated ==
    (wellFormed /\ DebugEvent # NoEvent /\ ~Processed("EXCEPTION_DEBUG_EVENT")
       /\ pc # "exited") =>
        dwContinueStatus = DBG_EXCEPTION_NOT_HANDLED /\ Resumed = DBG_EXCEPTION_NOT_HANDLED

\* the process ids and, for each, the thread ids of the registry
RegistryShape == [p \in DOMAIN g_Processes |-> DOMAIN g_Processes[p].Threads]

\* C20 as stated: an exception, module-load, module-unload, debug-string, RIP
\* or unrecognized notification leaves the process ids and the thread set of
\* each process as they were, whether or not its process is registered, and
\* only a process-create adds a process id.
C20_RegistryFrame ==
    [][EventStep =>
          /\ DebugEvent'.dwDebugEventCode \in
                {"EXCEPTION_DEBUG_EVENT", "LOAD_DLL_DEBUG_EVENT", "UNLOAD_DLL_DEBUG_EVENT",
                 "OUTPUT_DEBUG_STRING_EVENT", "RIP_EVENT", "UNRECOGNIZED_EVENT"}
                => RegistryShape' = RegistryShape
          /\ DebugEvent'.dwDebugEventCode # "CREATE_PROCESS_DEBUG_EVENT"
                => DOMAIN g_Processes' \subseteq DOMAIN g_Processes]_vars

\* while the stream is well-formed the frame holds: the notifications of a
\* registered process other than create and exit leave the registry alone
RegistryFrameWellFormed ==
    [][(EventStep /\ wellFormed'
          /\ DebugEvent'.dwDebugEventCode \in
                {"EXCEPTION_DEBUG_EVENT", "LOAD_DLL_DEBUG_EVENT", "UNLOAD_DLL_DEBUG_EVENT",
                 "OUTPUT_DEBUG_STRING_EVENT", "RIP_EVENT", "UNRECOGNIZED_EVENT"})
          => g_Processes' = g_Processes]_vars
=============================================================================
